---- MODULE Spec2Model ----
(***************************************************************************)
(* A model of daily_insights_bot.py: the feed reader                       *)
(* (fetch_recent_entries), one pipeline run (run_once, send_telegram), the *)
(* message builder (build_message) and the scheduling loop of __main__.    *)
(*                                                                         *)
(* Three specifications share the module:                                  *)
(*   SpecFeed  fetch_recent_entries, statement by statement;               *)
(*   Spec      __main__ and run_once, one step per statement group;        *)
(*   SpecMsg   build_message applied to bounded inputs.                    *)
(***************************************************************************)
EXTENDS Integers, Sequences, FiniteSets, TLC

VARIABLES
    \* ---- fetch_recent_entries (SpecFeed)
    fpc,          \* position: "loop", "entries", "returned", "raised"
    src,          \* 1-based index into RSS_FEEDS of the source being read
    d,            \* d.entries of the feed being iterated
    j,            \* 1-based index of the entry e in d
    cutoff,       \* the datetime computed on line 80
    fentries,     \* the local list `entries`, then the returned list
    fetched,      \* history: sources for which feedparser.parse was called
    parseFailed,  \* history: sources whose feedparser.parse raised
    seen,         \* history: every entry read so far, in reading order
    \* ---- __main__ and run_once (Spec)
    pc,           \* position of the single thread of control
    run_once_flag,\* args.run_once
    BOT_TOKEN,    \* module global, "" when the variable is not set
    CHAT_ID,      \* module global, "" when the variable is not set
    now,          \* the wall clock, minutes (UTC)
    now_teh,      \* local of the loop body
    target,       \* local of the loop body
    sleep_seconds,\* local of the loop body (minutes here)
    iter,         \* history: number of loop iterations begun
    entries,      \* run_once: the list returned by fetch_recent_entries
    k,            \* run_once: 1-based index of the for loop
    processed,    \* run_once: the list of processed items
    message,      \* run_once: the built message (its length)
    error,        \* the exception raised by the current run, or "none"
    netcalls,     \* history: network calls made so far in the current run
    sends,        \* history: send-message requests made in the current run
    dropped,      \* history: entries whose model calls failed in this run
    digest,       \* history: the items the message in flight was built from
    \* ---- build_message (SpecMsg)
    mpc,          \* "input" before the call, "built" after it
    items,        \* the argument of build_message
    msg           \* the returned string (its length)

feedVars == <<fpc, src, d, j, cutoff, fentries, fetched, parseFailed, seen>>
mainVars == <<pc, run_once_flag, BOT_TOKEN, CHAT_ID, now, now_teh, target,
              sleep_seconds, iter, entries, k, processed, message, error,
              netcalls, sends, dropped, digest>>
msgVars  == <<mpc, items, msg>>
vars     == <<feedVars, mainVars, msgVars>>

-----------------------------------------------------------------------------
(* Configuration                                                           *)

\* len(RSS_FEEDS)
NumFeeds == 5
MAX_ITEMS == 5
MAX_ARTICLE_AGE_HOURS == 36
\* the factor of entries[: MAX_ITEMS * 2]
SliceFactor == 2
\* "...".join(lines)[:4000]
MessageCap == 4000

-----------------------------------------------------------------------------
(* Bounds of the model                                                     *)

\* entries per feed
MaxFeedEntries == 2
\* the value of datetime.utcnow(), in hours
FeedNow == 100
\* spread of entry ages around the cutoff, in hours
AgeSpread == 1
\* candidate entries handed to run_once
MaxCands == 6
\* iterations of the scheduling loop
MaxIter == 2
\* minutes a pipeline run may take
MaxRunMinutes == 1
\* minutes time.sleep may overshoot
MaxOversleep == 1
\* longest title or summary, in characters
MaxStrLen == 1500

-----------------------------------------------------------------------------
(* Helpers                                                                 *)

Min(a, b) == IF a < b THEN a ELSE b

Range(s) == {s[i] : i \in 1..Len(s)}

\* s[:n]
Take(s, n) == SubSeq(s, 1, Min(Len(s), n))

\* all sequences over S of length 0..n
SeqsUpTo(S, n) == UNION {[1..m -> S] : m \in 0..n}


-----------------------------------------------------------------------------
(* Datetimes: an instant and whether the object carries a tzinfo.          *)

\* datetime.utcnow(): naive
UtcNow == [t |-> FeedNow, aware |-> FALSE]

\* dt - timedelta(hours=h): keeps the tzinfo of dt
MinusHours(dt, h) == [dt EXCEPT !.t = @ - h]

\* datetime(*e.published_parsed[:6], tzinfo=timezone.utc): aware
Published(e) == [t |-> e.t, aware |-> TRUE]

\* a < b on datetimes: Python raises TypeError when exactly one is aware
Before(a, b) ==
    IF a.aware /= b.aware THEN "TypeError"
    ELSE IF a.t < b.t THEN "yes" ELSE "no"

-----------------------------------------------------------------------------
(* fetch_recent_entries                                                    *)

\* ages of feed entries, in hours, around the freshness window
Ages == (MAX_ARTICLE_AGE_HOURS - AgeSpread)..(MAX_ARTICLE_AGE_HOURS + AgeSpread)

\* a feed entry: has = "published_parsed" in e, t = its instant in hours
FeedEntries ==
    {[has |-> FALSE, t |-> 0]} \cup {[has |-> TRUE, t |-> FeedNow - a] : a \in Ages}

\* d.entries of one parsed feed
FeedContents == SeqsUpTo(FeedEntries, MaxFeedEntries)

\* entries.sort(key=lambda x: x[3], reverse=True): stable, newest first
RECURSIVE InsertByRecency(_, _)
InsertByRecency(s, x) ==
    IF s = <<>> THEN <<x>>
    ELSE IF Head(s).published.t >= x.published.t
         THEN <<Head(s)>> \o InsertByRecency(Tail(s), x)
         ELSE <<x>> \o s

RECURSIVE SortNewestFirst(_)
SortNewestFirst(s) ==
    IF s = <<>> THEN <<>>
    ELSE InsertByRecency(SortNewestFirst(SubSeq(s, 1, Len(s) - 1)), s[Len(s)])

\* lines 80-81: cutoff and the empty list
FeedInit ==
    /\ fpc = "loop"
    /\ src = 1
    /\ d = <<>>
    /\ j = 1
    /\ cutoff = MinusHours(UtcNow, MAX_ARTICLE_AGE_HOURS)
    /\ fentries = <<>>
    /\ fetched = {}
    /\ parseFailed = {}
    /\ seen = <<>>

\* line 83, feedparser.parse(url) raises: nothing in the function catches it
ParseRaises ==
    /\ fpc = "loop"
    /\ src <= NumFeeds
    /\ fpc' = "raised"
    /\ fetched' = fetched \cup {src}
    /\ parseFailed' = parseFailed \cup {src}
    /\ UNCHANGED <<src, d, j, cutoff, fentries, seen>>
    /\ UNCHANGED <<mainVars, msgVars>>

\* line 83, feedparser.parse(url) returns a feed (empty when the library
\* swallowed a download or parse failure itself)
ParseReturns ==
    /\ fpc = "loop"
    /\ src <= NumFeeds
    /\ \E c \in FeedContents :
          /\ d' = c
          /\ seen' = seen \o [i \in 1..Len(c) |->
                                 [source |-> src, idx |-> i, has |-> c[i].has, t |-> c[i].t]]
    /\ j' = 1
    /\ fpc' = "entries"
    /\ fetched' = fetched \cup {src}
    /\ UNCHANGED <<src, cutoff, fentries, parseFailed>>
    /\ UNCHANGED <<mainVars, msgVars>>

\* lines 84-94: one pass of `for e in d.entries`
ForEntry ==
    /\ fpc = "entries"
    /\ j <= Len(d)
    /\ LET e == d[j] IN
         IF ~e.has
         THEN /\ j' = j + 1
              /\ UNCHANGED <<fpc, fentries>>
         ELSE LET published == Published(e)
                  stale == Before(published, cutoff)
              IN  IF stale = "TypeError"
                  THEN /\ fpc' = "raised"
                       /\ UNCHANGED <<j, fentries>>
                  ELSE IF stale = "yes"
                  THEN /\ j' = j + 1
                       /\ UNCHANGED <<fpc, fentries>>
                  ELSE /\ fentries' = Append(fentries,
                              [source |-> src, idx |-> j, published |-> published])
                       /\ j' = j + 1
                       /\ UNCHANGED fpc
    /\ UNCHANGED <<src, d, cutoff, fetched, parseFailed, seen>>
    /\ UNCHANGED <<mainVars, msgVars>>

\* line 82: the inner loop is exhausted, on to the next source
NextSource ==
    /\ fpc = "entries"
    /\ j > Len(d)
    /\ src' = src + 1
    /\ fpc' = "loop"
    /\ UNCHANGED <<d, j, cutoff, fentries, fetched, parseFailed, seen>>
    /\ UNCHANGED <<mainVars, msgVars>>

\* lines 96-97: sort and slice
SortAndReturn ==
    /\ fpc = "loop"
    /\ src > NumFeeds
    /\ fentries' = Take(SortNewestFirst(fentries), MAX_ITEMS * SliceFactor)
    /\ fpc' = "returned"
    /\ UNCHANGED <<src, d, j, cutoff, fetched, parseFailed, seen>>
    /\ UNCHANGED <<mainVars, msgVars>>

FeedNext == ParseRaises \/ ParseReturns \/ ForEntry \/ NextSource \/ SortAndReturn

-----------------------------------------------------------------------------
(* build_message                                                           *)
(* A string is the count of its characters by what html.escape does to     *)
(* them; a built message is its length in characters.                      *)

Str(plain, amp, angle, quote) ==
    [plain |-> plain, amp |-> amp, angle |-> angle, quote |-> quote]

\* len(s)
StrLen(s) == s.plain + s.amp + s.angle + s.quote

\* len(html.escape(s)): & -> &amp;  < -> &lt;  > -> &gt;  " -> &quot;  ' -> &#x27;
EscapedLen(s) == s.plain + 5 * s.amp + 4 * s.angle + 6 * s.quote

\* len(str(idx))
RECURSIVE Digits(_)
Digits(n) == IF n < 10 THEN 1 ELSE 1 + Digits(n \div 10)

\* lines 153-157: the lengths of the five lines appended for one item
BlockLines(idx, item) ==
    << 11 + Digits(idx) + 1,
       9 + EscapedLen(item.title),
       29 + EscapedLen(item.en),
       32 + EscapedLen(item.fa),
       1 >>

RECURSIVE MessageLines(_, _)
MessageLines(its, idx) ==
    IF idx > Len(its) THEN <<>>
    ELSE BlockLines(idx, its[idx]) \o MessageLines(its, idx + 1)

RECURSIVE SumSeq(_)
SumSeq(s) == IF s = <<>> THEN 0 ELSE Head(s) + SumSeq(Tail(s))

\* len("\n".join(lines))
JoinedLen(lines) == IF lines = <<>> THEN 0 ELSE SumSeq(lines) + (Len(lines) - 1)

\* build_message without the slice of line 158
BuildMessageUnsliced(its) == JoinedLen(MessageLines(its, 1))

\* line 158: the slice keeps at most 4000 characters
BuildMessage(its) == Min(JoinedLen(MessageLines(its, 1)), MessageCap)

StrKinds == {Str(0, 0, 0, 0), Str(1, 1, 1, 1), Str(0, MaxStrLen, 0, 0)}

ItemKinds == {[title |-> s[1], en |-> s[2], fa |-> s[2]] : s \in StrKinds \X StrKinds}

MsgInit ==
    /\ mpc = "input"
    /\ items \in UNION {[1..n -> ItemKinds] : n \in 1..MAX_ITEMS}
    /\ msg = 0

Build ==
    /\ mpc = "input"
    /\ msg' = BuildMessage(items)
    /\ mpc' = "built"
    /\ UNCHANGED items
    /\ UNCHANGED <<mainVars, feedVars>>

MsgNext == Build

-----------------------------------------------------------------------------
(* __main__, run_once, send_telegram                                       *)

DayMinutes == 24 * 60

\* Asia/Tehran is UTC+3:30 all year
TehranOffsetMinutes == 210
TargetHour == 9
TargetMinute == 30

\* now_utc.astimezone(tz_tehran): the same instant read on the Tehran clock
AsTehran(utc) == utc + TehranOffsetMinutes

\* lines 215-217 with `>` for `>=`: at 09:30 sharp the target is now
NextTargetStrict(local) ==
    LET today == (local \div DayMinutes) * DayMinutes + TargetHour * 60 + TargetMinute
    IN  IF local > today THEN today + DayMinutes ELSE today

\* lines 215-217: today's 09:30 on the local clock, tomorrow's when not ahead
NextTarget(local) ==
    LET today == (local \div DayMinutes) * DayMinutes + TargetHour * 60 + TargetMinute
    IN  IF local >= today THEN today + DayMinutes ELSE today

\* the title and the two summaries of candidate c
ItemOf(c) == [id |-> c, title |-> Str(40, 1, 0, 2), en |-> Str(300, 0, 0, 0),
              fa |-> Str(300, 0, 0, 0)]

\* clock readings at which the process is started: around every hour of day 0
StartTimes == {h * 60 + m : h \in 0..23, m \in {0, 1, 59}}

MainInit ==
    /\ pc = "start"
    /\ run_once_flag \in BOOLEAN
    /\ BOT_TOKEN \in {"", "token"}
    /\ CHAT_ID \in {"", "chat"}
    /\ now \in StartTimes
    /\ now_teh = 0
    /\ target = 0
    /\ sleep_seconds = 0
    /\ iter = 0
    /\ entries = <<>>
    /\ k = 1
    /\ processed = <<>>
    /\ message = 0
    /\ error = "none"
    /\ netcalls = {}
    /\ sends = 0
    /\ dropped = {}
    /\ digest = <<>>

\* the call run_once(): a fresh frame
EnterRun ==
    /\ pc' = "fetch"
    /\ entries' = <<>>
    /\ k' = 1
    /\ processed' = <<>>
    /\ message' = 0
    /\ error' = "none"
    /\ netcalls' = {}
    /\ sends' = 0
    /\ dropped' = {}
    /\ digest' = <<>>

\* an exception leaves run_once; neither run_once nor __main__ catches it
Raise(exc) ==
    /\ error' = exc
    /\ pc' = "crashed"

\* lines 207-212 with the loop body reordered to run first, as the comment
\* on line 210 ("Run now and then sleep") describes
MainRunsFirst ==
    /\ pc = "start"
    /\ EnterRun
    /\ UNCHANGED <<now, now_teh, target, sleep_seconds, iter>>
    /\ UNCHANGED <<run_once_flag, BOT_TOKEN, CHAT_ID>>
    /\ UNCHANGED <<feedVars, msgVars>>

\* lines 207-212
Main ==
    /\ pc = "start"
    /\ IF run_once_flag
       THEN /\ EnterRun
            /\ UNCHANGED <<now, now_teh, target, sleep_seconds, iter>>
       ELSE /\ pc' = "compute"
            /\ UNCHANGED <<now, now_teh, target, sleep_seconds, iter, entries, k,
                           processed, message, error, netcalls, sends, dropped, digest>>
    /\ UNCHANGED <<run_once_flag, BOT_TOKEN, CHAT_ID>>
    /\ UNCHANGED <<feedVars, msgVars>>

\* lines 213-219
ComputeTarget ==
    /\ pc = "compute"
    /\ iter < MaxIter
    /\ now_teh' = AsTehran(now)
    /\ target' = NextTarget(now_teh')
    /\ sleep_seconds' = target' - now_teh'
    /\ iter' = iter + 1
    /\ pc' = "sleep"
    /\ UNCHANGED <<run_once_flag, BOT_TOKEN, CHAT_ID, now, entries, k, processed,
                   message, error, netcalls, sends, dropped, digest>>
    /\ UNCHANGED <<feedVars, msgVars>>

\* lines 222-223: time.sleep(sleep_seconds) suspends for at least that long,
\* then the call of run_once
Sleep ==
    /\ pc = "sleep"
    /\ \E over \in 0..MaxOversleep : now' = now + sleep_seconds + over
    /\ EnterRun
    /\ UNCHANGED <<run_once_flag, BOT_TOKEN, CHAT_ID, now_teh, target, sleep_seconds, iter>>
    /\ UNCHANGED <<feedVars, msgVars>>

\* line 176: fetch_recent_entries() returns. Its result is taken from its
\* signature: any newest-first list of at most MAX_ITEMS * 2 entries. That
\* is a superset of what FeedNext returns: with ForEntry raising on every
\* dated entry, SortAndReturn is only reached with the empty list.
\* Candidate c is the c-th newest.
FetchReturns ==
    /\ pc = "fetch"
    /\ \E n \in 0..Min(MaxCands, MAX_ITEMS * SliceFactor) : entries' = [c \in 1..n |-> c]
    /\ netcalls' = netcalls \cup {"feed"}
    /\ pc' = "loop"
    /\ UNCHANGED <<run_once_flag, BOT_TOKEN, CHAT_ID, now, now_teh, target,
                   sleep_seconds, iter, k, processed, message, error, sends, dropped, digest>>
    /\ UNCHANGED <<feedVars, msgVars>>

\* line 176: fetch_recent_entries() raises (ParseRaises, or ForEntry's TypeError)
FetchRaises ==
    /\ pc = "fetch"
    /\ netcalls' = netcalls \cup {"feed"}
    /\ Raise("fetch")
    /\ UNCHANGED <<run_once_flag, BOT_TOKEN, CHAT_ID, now, now_teh, target,
                   sleep_seconds, iter, entries, k, processed, message, sends, dropped, digest>>
    /\ UNCHANGED <<feedVars, msgVars>>

\* lines 178-180: the loop is exhausted, or the break
LoopExit ==
    /\ pc = "loop"
    /\ k > Len(entries) \/ Len(processed) >= MAX_ITEMS
    /\ pc' = "check"
    /\ UNCHANGED <<run_once_flag, BOT_TOKEN, CHAT_ID, now, now_teh, target,
                   sleep_seconds, iter, entries, k, processed, message, error,
                   netcalls, sends, dropped, digest>>
    /\ UNCHANGED <<feedVars, msgVars>>

\* lines 181-188 with the except clause leaving the loop instead of going on
ProcessEntryStopsOnFailure ==
    /\ pc = "loop"
    /\ k <= Len(entries)
    /\ Len(processed) < MAX_ITEMS
    /\ \E outcome \in {"ok", "summarize_raises", "translate_raises"} :
          IF outcome = "ok"
          THEN /\ processed' = Append(processed, ItemOf(entries[k]))
               /\ k' = k + 1
               /\ UNCHANGED dropped
          ELSE /\ dropped' = dropped \cup {entries[k]}
               /\ k' = Len(entries) + 1
               /\ UNCHANGED processed
    /\ netcalls' = netcalls \cup {"page", "model"}
    /\ UNCHANGED <<pc, run_once_flag, BOT_TOKEN, CHAT_ID, now, now_teh, target,
                   sleep_seconds, iter, entries, message, error, sends, digest>>
    /\ UNCHANGED <<feedVars, msgVars>>

\* lines 181-188: extract_text never raises; summarize or translate_persian
\* may, and the except clause logs it and goes on with the next entry
ProcessEntry ==
    /\ pc = "loop"
    /\ k <= Len(entries)
    /\ Len(processed) < MAX_ITEMS
    /\ \E outcome \in {"ok", "summarize_raises", "translate_raises"} :
          IF outcome = "ok"
          THEN /\ processed' = Append(processed, ItemOf(entries[k]))
               /\ UNCHANGED dropped
          ELSE /\ dropped' = dropped \cup {entries[k]}
               /\ UNCHANGED processed
    /\ netcalls' = netcalls \cup {"page", "model"}
    /\ k' = k + 1
    /\ UNCHANGED <<pc, run_once_flag, BOT_TOKEN, CHAT_ID, now, now_teh, target,
                   sleep_seconds, iter, entries, message, error, sends, digest>>
    /\ UNCHANGED <<feedVars, msgVars>>

\* lines 189-192
CheckAndBuild ==
    /\ pc = "check"
    /\ IF processed = <<>>
       THEN /\ pc' = "returned"
            /\ UNCHANGED <<message, digest>>
       ELSE /\ message' = BuildMessage(processed)
            /\ digest' = processed
            /\ pc' = "send"
    /\ UNCHANGED <<run_once_flag, BOT_TOKEN, CHAT_ID, now, now_teh, target,
                   sleep_seconds, iter, entries, k, processed, error, netcalls,
                   sends, dropped>>
    /\ UNCHANGED <<feedVars, msgVars>>

\* lines 162-163
SendConfigError ==
    /\ pc = "send"
    /\ BOT_TOKEN = "" \/ CHAT_ID = ""
    /\ Raise("config")
    /\ UNCHANGED <<run_once_flag, BOT_TOKEN, CHAT_ID, now, now_teh, target,
                   sleep_seconds, iter, entries, k, processed, message, netcalls,
                   sends, dropped, digest>>
    /\ UNCHANGED <<feedVars, msgVars>>

\* lines 164-167 with a second request after a non-success response
SendPostRetrying ==
    /\ pc = "send"
    /\ ~(BOT_TOKEN = "" \/ CHAT_ID = "")
    /\ sends' = sends + 1
    /\ netcalls' = netcalls \cup {"send"}
    /\ \E ok \in BOOLEAN :
          IF ok THEN pc' = "returned" /\ UNCHANGED error
          ELSE IF sends = 0 THEN UNCHANGED <<pc, error>>
          ELSE Raise("delivery")
    /\ UNCHANGED <<run_once_flag, BOT_TOKEN, CHAT_ID, now, now_teh, target,
                   sleep_seconds, iter, entries, k, processed, message, dropped, digest>>
    /\ UNCHANGED <<feedVars, msgVars>>

\* lines 164-167 and 194
SendPost ==
    /\ pc = "send"
    /\ ~(BOT_TOKEN = "" \/ CHAT_ID = "")
    /\ sends' = sends + 1
    /\ netcalls' = netcalls \cup {"send"}
    /\ \E ok \in BOOLEAN :
          IF ok THEN pc' = "returned" /\ UNCHANGED error
                ELSE Raise("delivery")
    /\ UNCHANGED <<run_once_flag, BOT_TOKEN, CHAT_ID, now, now_teh, target,
                   sleep_seconds, iter, entries, k, processed, message, dropped, digest>>
    /\ UNCHANGED <<feedVars, msgVars>>

\* run_once returns: the process ends (line 208) or the loop goes round (line 212)
RunReturns ==
    /\ pc = "returned"
    /\ IF run_once_flag
       THEN pc' = "exited" /\ UNCHANGED now
       ELSE /\ pc' = "compute"
            /\ \E took \in 0..MaxRunMinutes : now' = now + took
    /\ UNCHANGED <<run_once_flag, BOT_TOKEN, CHAT_ID, now_teh, target,
                   sleep_seconds, iter, entries, k, processed, message, error,
                   netcalls, sends, dropped, digest>>
    /\ UNCHANGED <<feedVars, msgVars>>

MainNext ==
    \/ Main \/ ComputeTarget \/ Sleep
    \/ FetchReturns \/ FetchRaises \/ LoopExit \/ ProcessEntry
    \/ CheckAndBuild \/ SendConfigError \/ SendPost \/ RunReturns

-----------------------------------------------------------------------------
(* Specifications                                                          *)

\* the variables of a part that is not running
FeedIdle ==
    /\ fpc = "idle" /\ src = 0 /\ d = <<>> /\ j = 0 /\ cutoff = UtcNow
    /\ fentries = <<>> /\ fetched = {} /\ parseFailed = {} /\ seen = <<>>

MainIdle ==
    /\ pc = "idle" /\ run_once_flag = FALSE /\ BOT_TOKEN = "" /\ CHAT_ID = ""
    /\ now = 0 /\ now_teh = 0 /\ target = 0 /\ sleep_seconds = 0 /\ iter = 0
    /\ entries = <<>> /\ k = 0 /\ processed = <<>> /\ message = 0
    /\ error = "none" /\ netcalls = {} /\ sends = 0 /\ dropped = {} /\ digest = <<>>

MsgIdle == mpc = "idle" /\ items = <<>> /\ msg = 0

Init == MainInit /\ FeedIdle /\ MsgIdle
Next == MainNext
Spec == Init /\ [][Next]_vars

InitFeed == FeedInit /\ MainIdle /\ MsgIdle
NextFeed == FeedNext
SpecFeed == InitFeed /\ [][NextFeed]_vars

InitMsg == MsgInit /\ MainIdle /\ FeedIdle
NextMsg == MsgNext
SpecMsg == InitMsg /\ [][NextMsg]_vars

-----------------------------------------------------------------------------
(* Properties                                                              *)

CredentialsMissing == BOT_TOKEN = "" \/ CHAT_ID = ""
Daemon == ~run_once_flag
RunEnded == pc \in {"returned", "crashed", "exited"}

\* C1: in continuous mode an exception raised by an iteration's run does not
\* end the scheduling loop: the process is never left dead by it.
C1_LoopSurvivesFatalError ==
    (Daemon /\ error /= "none") => pc /= "crashed"

\* C2: with the credential or the destination missing, the run makes no
\* network call at all and ends with the configuration error.
C2_ConfigErrorBeforeNetwork ==
    (CredentialsMissing /\ pc \notin {"start", "compute", "sleep"}) =>
        /\ netcalls = {}
        /\ RunEnded => error = "config"

\* what the sources that answered should contribute: their entries that carry
\* a timestamp no older than the window
Fresh(e) == e.has /\ FeedNow - e.t <= MAX_ARTICLE_AGE_HOURS

AsCandidate(e) ==
    [source |-> e.source, idx |-> e.idx, published |-> [t |-> e.t, aware |-> TRUE]]

FreshSeen ==
    LET f == SelectSeq(seen, Fresh) IN [i \in 1..Len(f) |-> AsCandidate(f[i])]

FeedFinished == fpc \in {"returned", "raised"}

\* C3: when one source fails, the reader still returns, having fetched every
\* source, and the result is what the other sources contribute.
C3_SourceFailureIsolated ==
    (FeedFinished /\ parseFailed /= {}) =>
        /\ fpc = "returned"
        /\ fetched = 1..NumFeeds
        /\ fentries = Take(SortNewestFirst(FreshSeen), MAX_ITEMS * SliceFactor)

\* C4: a send-message request is made only for a digest of 1 to 5 items, and
\* a run that processed no entry makes no request and raises nothing.
C4_DeliveryOnlyWithItems ==
    /\ sends > 0 => Len(digest) \in 1..MAX_ITEMS
    /\ (RunEnded /\ processed = <<>>) => (sends = 0 /\ error = "none")

\* the first n candidates that were not dropped, as items
FirstKept(n) ==
    LET kept == SelectSeq(entries, LAMBDA c : c \notin dropped)
    IN  [i \in 1..Min(Len(kept), n) |-> ItemOf(kept[i])]

\* C5: a failed model call drops its entry and nothing else: the run goes on
\* to the end of the loop, and the items handed to build_message are the
\* first up-to-5 candidates whose calls succeeded, in candidate order.
C5_FailedEntryOnlyDropped ==
    /\ pc \in {"check", "send", "returned"} =>
          /\ processed = FirstKept(MAX_ITEMS)
          /\ Len(processed) = MAX_ITEMS \/ k > Len(entries)
    /\ pc = "send" => digest = FirstKept(MAX_ITEMS)
    /\ pc = "crashed" => (error = "fetch" \/ digest /= <<>>)

\* the claim's own example: three candidates, the second fails
C5_Witness ==
    /\ pc = "send"
    /\ Len(entries) = 3
    /\ dropped = {2}
    /\ digest = <<ItemOf(1), ItemOf(3)>>

\* C6: when the reader is done it has returned; what it returns is fresh and
\* timestamped, and an entry exactly at the cutoff age is in it.
C6_FreshnessFilter ==
    FeedFinished =>
        /\ \A i \in 1..Len(fentries) :
              FeedNow - fentries[i].published.t <= MAX_ARTICLE_AGE_HOURS
        /\ \A i \in 1..Len(seen) :
              ( /\ seen[i].has
                /\ FeedNow - seen[i].t = MAX_ARTICLE_AGE_HOURS
                /\ Len(FreshSeen) <= MAX_ITEMS * SliceFactor )
              => ( /\ fpc = "returned"
                   /\ AsCandidate(seen[i]) \in Range(fentries) )

TargetOfDay == TargetHour * 60 + TargetMinute

\* C7: the target is the next 09:30 on the Tehran clock after the current
\* time (today's before 09:30, tomorrow's from 09:30 on), and the sleep is
\* the positive distance to it, at most one day.
C7_NextOccurrence ==
    pc = "sleep" =>
        /\ now_teh = now + TehranOffsetMinutes
        /\ target % DayMinutes = TargetOfDay
        /\ target > now_teh
        /\ target - now_teh <= DayMinutes
        /\ now_teh % DayMinutes < TargetOfDay =>
              target \div DayMinutes = now_teh \div DayMinutes
        /\ now_teh % DayMinutes >= TargetOfDay =>
              target \div DayMinutes = now_teh \div DayMinutes + 1
        /\ sleep_seconds = target - now_teh
        /\ sleep_seconds > 0
        /\ sleep_seconds <= DayMinutes

\* the boundary: the clock reads 09:30 sharp and the sleep is a whole day
C7_Witness ==
    /\ pc = "sleep"
    /\ now_teh % DayMinutes = TargetOfDay
    /\ sleep_seconds = DayMinutes

\* C8: a run makes at most one send-message request, and a delivery error
\* ends the run after exactly one.
C8_SingleSendAttempt ==
    /\ sends <= 1
    /\ error = "delivery" => (sends = 1 /\ pc = "crashed")

C8_Witness == error = "delivery" /\ sends = 1 /\ pc = "crashed"

ChannelLimit == 4096

\* C10: the built message is at most 4000 characters long, under the
\* channel's limit of 4096.
C10_MessageWithinCap ==
    mpc = "built" => (msg <= MessageCap /\ msg < ChannelLimit)

\* an input the slice shortens, and the cap is reached
C10_Witness ==
    /\ mpc = "built"
    /\ Len(items) \in 1..MAX_ITEMS
    /\ JoinedLen(MessageLines(items, 1)) > MessageCap
    /\ msg = MessageCap

=============================================================================
